---- MODULE Spec2Model ----
(***************************************************************************)
(* A model of the multi-paxos crate (src/src/multi_paxos.rs): clients,     *)
(* proposers, acceptors and learners that exchange the messages of         *)
(* src/src/message.rs over UDP multicast groups (src/src/net_node.rs).     *)
(*                                                                         *)
(* Every process is one sequential receive loop.  One action of the model  *)
(* is one whole handler: it takes one datagram out of the process's        *)
(* socket, updates the process's state and puts the datagrams the handler  *)
(* sends into the sockets of the addressed group.  A datagram that is      *)
(* never taken out of a socket is a lost (or arbitrarily delayed) one; the *)
(* order in which datagrams are taken is free; no datagram is taken twice. *)
(***************************************************************************)
EXTENDS Integers, Sequences, FiniteSets, Bags, TLC

\* ------------------------------------------------------------ configuration

\* The integer ids of the proposers (the <proposer_uid> of start_proposer, "a
\* non-negative number").
Proposers == {0, 1, 2, 3}

\* The acceptors of the configuration ([acceptors] size).
Acceptors == {1, 2, 3}

\* The learners of the configuration.
Learners == {1, 2}

\* The clients of the configuration.
Clients == {1, 2}

\* The values clients propose (7 and 42 are the values of scenarios S1, S2).
Values == {7, 42}

\* How many Requests a client sends in a run.
MaxRequests == 1

\* A proposer starts no instance beyond this one.
MaxInstance == 1

\* A proposer of the runs that check the order of the values starts no
\* instance beyond this one.
MaxInstanceInOrder == 2

\* How many datagrams that no process of the run has sent arrive at sockets.
MaxInjected == 3

\* The rounds and the instances such datagrams name.
MaxInjectedRound == 3

MaxInjectedInstance == 3

\* How many instances a proposer has learned before a late learner starts.
MaxLearnedBefore == 2

\* How many datagrams the transport delivers a second time in a run.
MaxReplayed == 1

\* Option<T>: None and Some(v).
None == << >>

Some(v) == << v >>

unwrap(o) == o[1]

\* The Uuid of a process: unique over all roles.
Uuid(role, id) == << role, id >>

\* ------------------------------------------------------------------- state

VARIABLES
    p_status,          \* proposer -> "new" | "running" | a panic
    proposer_states,   \* proposer -> (instance -> ProposerState), a lazy map
    num_of_instances,  \* proposer -> usize
    learned_values,    \* proposer -> (instance -> value), a map
    a_status,          \* acceptor -> "running" | a panic
    acceptor_states,   \* acceptor -> (instance -> AcceptorState), a lazy map
    l_status,          \* learner -> "new" | "running" | a panic
    l_learned_values,  \* learner -> (instance -> value), a map
    l_num_of_instances,\* learner -> next instance to print
    l_stdout,          \* learner -> the lines printed so far, <<instance, value>>
    net,               \* the datagrams in the sockets: a bag of <<uuid, message>>
    down,              \* the loss pattern of the run: <<from, to, type>> when
                       \*   every datagram of that type from -> to is lost
    injected,          \* how many datagrams of other origin arrived so far
    requested,         \* history: the values of the Requests sent so far
    num_requests,      \* client -> how many Requests it has sent so far
    promises_recorded, \* history: proposer -> (instance -> the <<v_rnd, v_val>>
                       \*          pairs of the Promises propose has recorded)
    broadcast,         \* history: proposer -> the Preparations, Proposals and
                       \*          Learnings it has sent so far
    answered,          \* history: acceptor -> the bag of the Promises and
                       \*          Acceptances it has sent so far
    held               \* history: proposer -> the <<instance, value>> entries
                       \*          learned_values has held so far

vars == << p_status, proposer_states, num_of_instances, learned_values,
           a_status, acceptor_states, l_status, l_learned_values,
           l_num_of_instances, l_stdout, net, down, injected, requested,
           num_requests,
           promises_recorded, broadcast, answered, held >>

proposer_vars == << p_status, proposer_states, num_of_instances,
                    learned_values, promises_recorded, broadcast, held >>

acceptor_vars == << a_status, acceptor_states, answered >>

learner_vars == << l_status, l_learned_values, l_num_of_instances, l_stdout >>

env_vars == << requested, num_requests, down, injected >>

\* A process holds a socket of its group from its construction until it
\* aborts; a process that is not part of the run is "absent".
bound(status) == status \in { "new", "running" }

\* The sockets bound to the address of each group.
ProposerGroup == { Uuid("p", p) : p \in { q \in Proposers : bound(p_status[q]) } }

AcceptorGroup == { Uuid("a", a) : a \in { b \in Acceptors : bound(a_status[b]) } }

LearnerGroup == { Uuid("l", l) : l \in { k \in Learners : bound(l_status[k]) } }

\* rnd_received and v_rnd_received are Vec<usize> that the code only pushes to
\* and reads with len() and iter().all(): the order of their elements is never
\* observed, so a Vec is kept as the bag of its elements.
push(vec, x) == vec (+) SetToBag({x})

len(vec) == BagCardinality(vec)

\* iter().all(|&n| n == x)
all_equal(vec, x) == \A n \in BagToSet(vec) : n = x

\* ProposerState::default()
ProposerStateDefault ==
    [ value |-> None, c_rnd |-> 0, c_val |-> None, rnd_received |-> EmptyBag,
      highest_v_rnd_received |-> 0, associated_v_val_received |-> None,
      v_rnd_received |-> EmptyBag ]

\* AcceptorState::default()
AcceptorStateDefault == [ rnd |-> 0, v_rnd |-> 0, v_val |-> None ]

\* HashMap::new()
EmptyMap == << >>

\* map.entry(k).or_default(): the record of k, a default one on first touch.
entry_or_default(map, k, default) == IF k \in DOMAIN map THEN map[k] ELSE default

\* map.insert(k, v) (and the write-back of a record obtained with entry()).
insert(map, k, v) == [ j \in DOMAIN map \cup {k} |-> IF j = k THEN v ELSE map[j] ]

\* The entries of a HashMap.
Entries(map) == { << k, map[k] >> : k \in DOMAIN map }

\* A majority that waits for every acceptor.
majority_every_acceptor == Cardinality(Acceptors)

\* A majority that half of the acceptors, rounded down, make.
majority_half_of_acceptors == Cardinality(Acceptors) \div 2

\* Proposer::new: majority_of_acceptors = num_of_acceptors / 2 + 1
majority_of_acceptors == Cardinality(Acceptors) \div 2 + 1

\* ----------------------------------------------------------------- network

\* The sockets of a group that a datagram m reaches.
reached(m, group) == { d \in group : << m.sender, d, m.type >> \notin down }

\* NetNode::send: one datagram to the multicast group; every socket bound to
\* the group's address gets a copy, unless the link to it loses it.
send(n, m, group) == n (+) SetToBag({ << d, m >> : d \in reached(m, group) })

\* send for a handler that may send nothing: ms is empty or one message.
send_all(n, ms, group) ==
    n (+) SetToBag(UNION { { << d, m >> : d \in reached(m, group) } : m \in ms })

\* A receiver filter that lets every message through.
addressed_to_anyone(m, uuid) == TRUE

\* The receiver filter of handle_promise and handle_report: the message names
\* this process as its receiver.
addressed_to(m, uuid) == m.receiver = uuid

\* The datagrams NetNode::receive can return at the socket of uuid.
receivable(uuid) == { dm \in BagToSet(net) : dm[1] = uuid }

\* The sockets after receive has returned dm.
received(dm) == net (-) SetToBag({dm})

\* The state after construction of the processes of a run: ps and ls give the
\* proposers and learners that are part of it ("new") or not ("absent"), links
\* the links that lose every datagram during the run.
Constructed(ps, ls, links) ==
    /\ down = links
    /\ p_status = ps
    /\ proposer_states = [ p \in Proposers |-> EmptyMap ]
    /\ num_of_instances = [ p \in Proposers |-> 0 ]
    /\ learned_values = [ p \in Proposers |-> EmptyMap ]
    /\ a_status = [ a \in Acceptors |-> "running" ]
    /\ acceptor_states = [ a \in Acceptors |-> EmptyMap ]
    /\ answered = [ a \in Acceptors |-> EmptyBag ]
    /\ l_status = ls
    /\ l_learned_values = [ l \in Learners |-> EmptyMap ]
    /\ l_num_of_instances = [ l \in Learners |-> 1 ]
    /\ l_stdout = [ l \in Learners |-> << >> ]
    /\ net = EmptyBag
    /\ injected = 0
    /\ requested = {}
    /\ num_requests = [ c \in Clients |-> 0 ]
    /\ promises_recorded = [ p \in Proposers |-> EmptyMap ]
    /\ broadcast = [ p \in Proposers |-> {} ]
    /\ held = [ p \in Proposers |-> Entries(learned_values[p]) ]

\* The runs of proposers 1 and 2.
TwoProposers == [ p \in Proposers |-> IF p \in {1, 2} THEN "new" ELSE "absent" ]

\* One proposer (id 1), three acceptors, one learner.
Init ==
    Constructed([ p \in Proposers |-> IF p = 1 THEN "new" ELSE "absent" ],
                [ l \in Learners |-> IF l = 1 THEN "new" ELSE "absent" ], {})

\* NetNode::receive returns whatever datagram arrives at the socket, whoever
\* sent it: a well-formed datagram m of another origin arrives at the socket d.
Inject(d, m) ==
    /\ injected < MaxInjected
    /\ injected' = injected + 1
    /\ net' = net (+) SetToBag({ << d, m >> })
    /\ UNCHANGED << proposer_vars, acceptor_vars, learner_vars, down,
                    requested, num_requests >>

\* The transport delivers a datagram more than once: a second copy of a
\* Promise, an Acceptance or a Learning that is in a socket arrives there.
Replay(dm) ==
    /\ dm \in BagToSet(net)
    /\ dm[2].type \in { "Phase1b", "Phase2b", "Phase3" }
    /\ injected < MaxReplayed
    /\ Inject(dm[1], dm[2])

\* ------------------------------------------------------------------ client

\* Client::request(value): one Request to the proposer group.
ClientRequest(c, v) ==
    /\ num_requests[c] < MaxRequests
    /\ net' = send(net, [ type |-> "Phase0a", value |-> v,
                          sender |-> Uuid("c", c) ], ProposerGroup)
    /\ requested' = requested \cup {v}
    /\ num_requests' = [ num_requests EXCEPT ![c] = @ + 1 ]
    /\ UNCHANGED << proposer_vars, acceptor_vars, learner_vars, down, injected >>

\* ---------------------------------------------------------------- proposer

\* Proposer::run, before the loop: catch_up() sends a CatchUp to the proposers.
ProposerStart(p) ==
    /\ p_status[p] = "new"
    /\ p_status' = [ p_status EXCEPT ![p] = "running" ]
    /\ net' = send(net, [ type |-> "Phase0b", sender |-> Uuid("p", p),
                          sender_type |-> "p" ], ProposerGroup)
    /\ UNCHANGED << proposer_states, num_of_instances, learned_values,
                    promises_recorded, broadcast, held, acceptor_vars, learner_vars,
                    env_vars >>

\* prepare: the round of a (re)started instance.
next_c_rnd(c_rnd, id) == (c_rnd + 1) * id

\* prepare(value): the ProposerState of the instance after prepare.
prepare(state, value, id) ==
    [ state EXCEPT !.value = Some(value), !.c_rnd = next_c_rnd(state.c_rnd, id) ]

\* handle_request: prepare(request.value) starts instance num_of_instances + 1
\* and broadcasts its Preparation to the acceptors.  The proposer starts no
\* instance beyond max.
HandleRequestWithin(p, max) ==
    /\ p_status[p] = "running"
    /\ num_of_instances[p] < max
    /\ \E dm \in receivable(Uuid("p", p)) :
        /\ dm[2].type = "Phase0a"
        /\ LET i == num_of_instances[p] + 1
               state == prepare(entry_or_default(proposer_states[p], i,
                                                 ProposerStateDefault),
                                dm[2].value, p)
               preparation == [ type |-> "Phase1a", c_rnd |-> state.c_rnd,
                                sender |-> Uuid("p", p), instance |-> i ]
           IN  /\ num_of_instances' = [ num_of_instances EXCEPT ![p] = i ]
               /\ proposer_states' =
                      [ proposer_states EXCEPT ![p] = insert(@, i, state) ]
               /\ net' = send(received(dm), preparation, AcceptorGroup)
               /\ broadcast' = [ broadcast EXCEPT ![p] = @ \cup {preparation} ]
    /\ UNCHANGED << p_status, learned_values, promises_recorded, held,
                    acceptor_vars, learner_vars, env_vars >>

HandleRequest(p) == HandleRequestWithin(p, MaxInstance)

\* report(sender_uid, sender_type): the Report and the group it goes to.
report(p, sender_uid) ==
    [ type |-> "Phase0c", num_of_instances |-> num_of_instances[p],
      learned_values |-> learned_values[p], sender |-> Uuid("p", p),
      receiver |-> sender_uid ]

\* report that answers every CatchUp in the group of the proposers.
report_destination_proposers(sender_type) == ProposerGroup

report_destination(sender_type) ==
    IF sender_type = "l" THEN LearnerGroup ELSE ProposerGroup

\* A sender test that lets the proposer's own CatchUp through.
from_anyone(m, uuid) == TRUE

\* The sender test of handle_catch_up: the CatchUp is not the proposer's own.
from_another(m, uuid) == m.sender # uuid

\* handle_catch_up: answer with a Report unless the CatchUp is the proposer's own.
HandleCatchUp(p) ==
    /\ p_status[p] = "running"
    /\ \E dm \in receivable(Uuid("p", p)) :
        /\ dm[2].type = "Phase0b"
        /\ IF from_another(dm[2], Uuid("p", p))
             THEN net' = send(received(dm), report(p, dm[2].sender),
                              report_destination(dm[2].sender_type))
             ELSE net' = received(dm)
    /\ UNCHANGED << proposer_vars, acceptor_vars, learner_vars, env_vars >>

\* handle_report (proposer): a Report addressed to this proposer replaces
\* num_of_instances and learned_values; any other Report is ignored.
HandleReportProposer(p) ==
    /\ p_status[p] = "running"
    /\ \E dm \in receivable(Uuid("p", p)) :
        /\ dm[2].type = "Phase0c"
        /\ net' = received(dm)
        /\ IF addressed_to(dm[2], Uuid("p", p))
             THEN /\ num_of_instances' =
                        [ num_of_instances EXCEPT ![p] = dm[2].num_of_instances ]
                  /\ learned_values' =
                        [ learned_values EXCEPT ![p] = dm[2].learned_values ]
                  /\ held' = [ held EXCEPT
                                 ![p] = @ \cup Entries(dm[2].learned_values) ]
             ELSE UNCHANGED << num_of_instances, learned_values, held >>
    /\ UNCHANGED << p_status, proposer_states, promises_recorded, broadcast,
                    acceptor_vars, learner_vars, env_vars >>

\* pick_c_val that forgets the votes reported in Promises.
pick_c_val_own_value(state) == state.value

\* propose that always picks the value reported in the Promises, even when no
\* acceptor has reported one.
pick_c_val_reported(state) == state.associated_v_val_received

\* propose: the value picked for the round.
pick_c_val(state) ==
    IF state.highest_v_rnd_received = 0
      THEN state.value
      ELSE state.associated_v_val_received

\* propose: the running maximum of the v_rnd reported in Promises.
track_highest_v_rnd(state, v_rnd, v_val) ==
    IF v_rnd > state.highest_v_rnd_received
      THEN [ state EXCEPT !.highest_v_rnd_received = v_rnd,
                          !.associated_v_val_received = v_val ]
      ELSE state

\* propose that clears rnd_received once it holds a majority (the statement
\* that ends propose as a comment).
propose_clearing(state, rnd, v_rnd, v_val) ==
    LET s1 == [ state EXCEPT !.rnd_received = push(@, rnd) ]
        s2 == track_highest_v_rnd(s1, v_rnd, v_val)
    IN  IF len(s2.rnd_received) < majority_of_acceptors
          THEN [ state |-> s2, proposal |-> {} ]
          ELSE IF all_equal(s2.rnd_received, s2.c_rnd)
                 THEN LET s3 == [ s2 EXCEPT !.c_val = pick_c_val(s2),
                                            !.rnd_received = EmptyBag ]
                      IN  [ state |-> s3,
                            proposal |-> { [ c_rnd |-> s3.c_rnd,
                                             c_val |-> s3.c_val ] } ]
                 ELSE [ state |-> [ s2 EXCEPT !.rnd_received = EmptyBag ],
                        proposal |-> {} ]

\* propose(rnd, v_rnd, v_val, instance) on the ProposerState of the instance:
\* the state afterwards and the Proposal it broadcasts, if any.
propose(state, rnd, v_rnd, v_val) ==
    LET s1 == [ state EXCEPT !.rnd_received = push(@, rnd) ]
        s2 == track_highest_v_rnd(s1, v_rnd, v_val)
    IN  IF len(s2.rnd_received) < majority_of_acceptors
          THEN [ state |-> s2, proposal |-> {} ]
          ELSE IF all_equal(s2.rnd_received, s2.c_rnd)
                 THEN LET s3 == [ s2 EXCEPT !.c_val = pick_c_val(s2) ]
                      IN  [ state |-> s3,
                            proposal |-> { [ c_rnd |-> s3.c_rnd,
                                             c_val |-> s3.c_val ] } ]
                 ELSE [ state |-> s2, proposal |-> {} ]

\* handle_promise: propose for a Promise addressed to this proposer; any other
\* Promise is ignored.
HandlePromise(p) ==
    /\ p_status[p] = "running"
    /\ \E dm \in receivable(Uuid("p", p)) :
        /\ dm[2].type = "Phase1b"
        /\ IF addressed_to(dm[2], Uuid("p", p))
             THEN LET i == dm[2].instance
                      r == propose(entry_or_default(proposer_states[p], i,
                                                    ProposerStateDefault),
                                   dm[2].rnd, dm[2].v_rnd, dm[2].v_val)
                      proposals ==
                          { [ type |-> "Phase2a", c_rnd |-> m.c_rnd,
                              c_val |-> m.c_val, sender |-> Uuid("p", p),
                              instance |-> i ] : m \in r.proposal }
                  IN  /\ proposer_states' =
                            [ proposer_states EXCEPT ![p] = insert(@, i, r.state) ]
                      /\ promises_recorded' =
                            [ promises_recorded EXCEPT ![p] =
                                insert(@, i,
                                       entry_or_default(@, i, {})
                                         \cup { << dm[2].v_rnd, dm[2].v_val >> }) ]
                      /\ net' = send_all(received(dm), proposals, AcceptorGroup)
                      /\ broadcast' = [ broadcast EXCEPT ![p] = @ \cup proposals ]
             ELSE /\ net' = received(dm)
                  /\ UNCHANGED << proposer_states, promises_recorded, broadcast >>
    /\ UNCHANGED << p_status, num_of_instances, learned_values, held,
                    acceptor_vars, learner_vars, env_vars >>

\* decide with the two usize arguments of the Learning confused: the
\* Learning carries v_rnd as its learned value.
decide_learning_v_rnd(state, learned, v_rnd, v_val, instance) ==
    LET s1 == [ state EXCEPT !.v_rnd_received = push(@, v_rnd) ]
        lv == insert(learned, instance, v_val)
    IN  IF len(s1.v_rnd_received) < majority_of_acceptors
          THEN [ state |-> s1, learned |-> learned, panic |-> "", learning |-> {} ]
          ELSE IF all_equal(s1.v_rnd_received, s1.c_rnd)
                 THEN [ state |-> s1, learned |-> lv, panic |-> "",
                        learning |-> {v_rnd} ]
                 ELSE [ state |-> s1, learned |-> lv, panic |-> "",
                        learning |-> {} ]

\* decide(v_rnd, v_val, instance): the ProposerState and learned_values
\* afterwards, the assertion that aborted the proposer ("" when none did) and
\* the value of the Learning it broadcasts, if any.
decide(state, learned, v_rnd, v_val, instance) ==
    LET s1 == [ state EXCEPT !.v_rnd_received = push(@, v_rnd) ]
        lv == insert(learned, instance, v_val)
    IN  IF len(s1.v_rnd_received) < majority_of_acceptors
          THEN [ state |-> s1, learned |-> learned, panic |-> "", learning |-> {} ]
          ELSE IF instance \in DOMAIN learned /\ learned[instance] # v_val
            THEN [ state |-> s1, learned |-> lv,
                   panic |-> "panic_learned_value", learning |-> {} ]
          ELSE IF ~ all_equal(s1.v_rnd_received, s1.c_rnd)
            THEN [ state |-> s1, learned |-> lv, panic |-> "", learning |-> {} ]
          ELSE IF s1.c_val = None
            THEN [ state |-> s1, learned |-> lv,
                   panic |-> "panic_unwrap", learning |-> {} ]
          ELSE IF v_val # unwrap(s1.c_val)
            THEN [ state |-> s1, learned |-> lv,
                   panic |-> "panic_c_val", learning |-> {} ]
          ELSE [ state |-> s1, learned |-> lv, panic |-> "", learning |-> {v_val} ]

\* handle_acceptance: decide for every Acceptance, whatever its receiver; an
\* Acceptance without a value aborts the proposer ("Logic error").
HandleAcceptance(p) ==
    /\ p_status[p] = "running"
    /\ \E dm \in receivable(Uuid("p", p)) :
        /\ dm[2].type = "Phase2b"
        /\ IF dm[2].v_val = None
             THEN /\ p_status' = [ p_status EXCEPT ![p] = "panic_logic" ]
                  /\ net' = received(dm)
                  /\ UNCHANGED << proposer_states, learned_values, broadcast,
                                  held >>
             ELSE LET i == dm[2].instance
                      r == decide(entry_or_default(proposer_states[p], i,
                                                   ProposerStateDefault),
                                  learned_values[p], dm[2].v_rnd,
                                  unwrap(dm[2].v_val), i)
                      learnings ==
                          { [ type |-> "Phase3", learned_value |-> v,
                              sender |-> Uuid("p", p), instance |-> i ]
                            : v \in r.learning }
                  IN  /\ proposer_states' =
                            [ proposer_states EXCEPT ![p] = insert(@, i, r.state) ]
                      /\ learned_values' =
                            [ learned_values EXCEPT ![p] = r.learned ]
                      /\ held' = [ held EXCEPT ![p] = @ \cup Entries(r.learned) ]
                      /\ p_status' =
                            [ p_status EXCEPT ![p] =
                                IF r.panic = "" THEN @ ELSE r.panic ]
                      /\ net' = send_all(received(dm), learnings, LearnerGroup)
                      /\ broadcast' = [ broadcast EXCEPT ![p] = @ \cup learnings ]
    /\ UNCHANGED << num_of_instances, promises_recorded,
                    acceptor_vars, learner_vars, env_vars >>

\* ---------------------------------------------------------------- acceptor

\* promise_guard that answers every Preparation of another round.
promise_guard_other_round(c_rnd, rnd) == c_rnd # rnd

\* promise: an acceptor answers a Preparation of a round above its rnd.
promise_guard(c_rnd, rnd) == c_rnd > rnd

\* accept_guard that lets every round through.
accept_guard_any_round(c_rnd, rnd) == TRUE

\* accept_guard that refuses the round the acceptor has promised.
accept_guard_above(c_rnd, rnd) == c_rnd > rnd

\* accept: an acceptor votes in a round that is not below its rnd.
accept_guard(c_rnd, rnd) == c_rnd >= rnd

\* promise(c_rnd, sender_uid, instance) on the AcceptorState of the instance:
\* the state afterwards and the Promise it sends, if any.
promise(state, c_rnd) ==
    IF promise_guard(c_rnd, state.rnd)
      THEN LET s1 == [ state EXCEPT !.rnd = c_rnd ]
           IN  [ state |-> s1,
                 promise |-> { [ rnd |-> s1.rnd, v_rnd |-> s1.v_rnd,
                                 v_val |-> s1.v_val ] } ]
      ELSE [ state |-> state, promise |-> {} ]

\* accept(c_rnd, c_val, sender_uid, instance) on the AcceptorState of the
\* instance: the state afterwards and the Acceptance it sends, if any.
accept(state, c_rnd, c_val) ==
    IF accept_guard(c_rnd, state.rnd)
      THEN LET s1 == [ state EXCEPT !.v_rnd = c_rnd, !.v_val = Some(c_val) ]
           IN  [ state |-> s1,
                 acceptance |-> { [ v_rnd |-> s1.v_rnd, v_val |-> s1.v_val ] } ]
      ELSE [ state |-> state, acceptance |-> {} ]

\* handle_preparation
HandlePreparation(a) ==
    /\ a_status[a] = "running"
    /\ \E dm \in receivable(Uuid("a", a)) :
        /\ dm[2].type = "Phase1a"
        /\ LET i == dm[2].instance
               r == promise(entry_or_default(acceptor_states[a], i,
                                             AcceptorStateDefault),
                            dm[2].c_rnd)
               promises ==
                   { [ type |-> "Phase1b", rnd |-> m.rnd, v_rnd |-> m.v_rnd,
                       v_val |-> m.v_val, sender |-> Uuid("a", a),
                       receiver |-> dm[2].sender, instance |-> i ]
                     : m \in r.promise }
           IN  /\ acceptor_states' =
                      [ acceptor_states EXCEPT ![a] = insert(@, i, r.state) ]
               /\ net' = send_all(received(dm), promises, ProposerGroup)
               /\ answered' = [ answered EXCEPT ![a] = @ (+) SetToBag(promises) ]
    /\ UNCHANGED << a_status, proposer_vars, learner_vars, env_vars >>

\* handle_proposal: a Proposal without a value aborts the acceptor ("Logic
\* error").
HandleProposal(a) ==
    /\ a_status[a] = "running"
    /\ \E dm \in receivable(Uuid("a", a)) :
        /\ dm[2].type = "Phase2a"
        /\ IF dm[2].c_val = None
             THEN /\ a_status' = [ a_status EXCEPT ![a] = "panic_logic" ]
                  /\ net' = received(dm)
                  /\ UNCHANGED << acceptor_states, answered >>
             ELSE LET i == dm[2].instance
                      r == accept(entry_or_default(acceptor_states[a], i,
                                                   AcceptorStateDefault),
                                  dm[2].c_rnd, unwrap(dm[2].c_val))
                      acceptances ==
                          { [ type |-> "Phase2b", v_rnd |-> m.v_rnd,
                              v_val |-> m.v_val, sender |-> Uuid("a", a),
                              receiver |-> dm[2].sender, instance |-> i ]
                            : m \in r.acceptance }
                  IN  /\ acceptor_states' =
                            [ acceptor_states EXCEPT ![a] = insert(@, i, r.state) ]
                      /\ net' = send_all(received(dm), acceptances,
                                         ProposerGroup)
                      /\ answered' =
                            [ answered EXCEPT ![a] = @ (+) SetToBag(acceptances) ]
                      /\ UNCHANGED a_status
    /\ UNCHANGED << proposer_vars, learner_vars, env_vars >>

\* ----------------------------------------------------------------- learner

\* Learner::run, before the loop: catch_up() sends a CatchUp to the proposers.
LearnerStart(l) ==
    /\ l_status[l] = "new"
    /\ l_status' = [ l_status EXCEPT ![l] = "running" ]
    /\ net' = send(net, [ type |-> "Phase0b", sender |-> Uuid("l", l),
                          sender_type |-> "l" ], ProposerGroup)
    /\ UNCHANGED << l_learned_values, l_num_of_instances, l_stdout,
                    proposer_vars, acceptor_vars, env_vars >>

\* print_learned_values that prints the lowest instance it holds from
\* num_of_instances on, whether or not the ones before it are known.
print_learned_values_skipping(learned, num, stdout) ==
    LET later == { j \in DOMAIN learned : j >= num }
    IN  IF later = {}
          THEN [ num_of_instances |-> num, stdout |-> stdout ]
          ELSE LET j == CHOOSE k \in later : \A k2 \in later : k <= k2
               IN  [ num_of_instances |-> j + 1,
                     stdout |-> Append(stdout, << j, learned[j] >>) ]

\* print_learned_values with an if in place of the while: print the next
\* instance if it is known, and no further one.
print_learned_values_once(learned, num, stdout) ==
    IF num \in DOMAIN learned
      THEN [ num_of_instances |-> num + 1,
             stdout |-> Append(stdout, << num, learned[num] >>) ]
      ELSE [ num_of_instances |-> num, stdout |-> stdout ]

\* print_learned_values: print while the next instance is known.  A printed
\* line is kept with its instance number.
RECURSIVE print_learned_values(_, _, _)
print_learned_values(learned, num, stdout) ==
    IF num \in DOMAIN learned
      THEN print_learned_values(learned, num + 1,
                                Append(stdout, << num, learned[num] >>))
      ELSE [ num_of_instances |-> num, stdout |-> stdout ]

\* handle_report (learner): the loop that inserts every entry of the Report.
merge_report(learned, reported) ==
    [ j \in DOMAIN learned \cup DOMAIN reported |->
        IF j \in DOMAIN reported THEN reported[j] ELSE learned[j] ]

\* handle_report (learner): merge a Report addressed to this learner, then
\* print; any other Report is ignored.
HandleReportLearner(l) ==
    /\ l_status[l] = "running"
    /\ \E dm \in receivable(Uuid("l", l)) :
        /\ dm[2].type = "Phase0c"
        /\ net' = received(dm)
        /\ IF addressed_to(dm[2], Uuid("l", l))
             THEN LET lv == merge_report(l_learned_values[l], dm[2].learned_values)
                      r == print_learned_values(lv, l_num_of_instances[l],
                                                l_stdout[l])
                  IN  /\ l_learned_values' = [ l_learned_values EXCEPT ![l] = lv ]
                      /\ l_num_of_instances' =
                            [ l_num_of_instances EXCEPT ![l] = r.num_of_instances ]
                      /\ l_stdout' = [ l_stdout EXCEPT ![l] = r.stdout ]
             ELSE UNCHANGED << l_learned_values, l_num_of_instances, l_stdout >>
    /\ UNCHANGED << l_status, proposer_vars, acceptor_vars, env_vars >>

\* handle_learning: insert the learned value; a different value held before
\* aborts the learner; otherwise print.
HandleLearning(l) ==
    /\ l_status[l] = "running"
    /\ \E dm \in receivable(Uuid("l", l)) :
        /\ dm[2].type = "Phase3"
        /\ net' = received(dm)
        /\ LET i == dm[2].instance
               v == dm[2].learned_value
               lv == insert(l_learned_values[l], i, v)
               r == print_learned_values(lv, l_num_of_instances[l], l_stdout[l])
           IN  /\ l_learned_values' = [ l_learned_values EXCEPT ![l] = lv ]
               /\ IF i \in DOMAIN l_learned_values[l] /\ l_learned_values[l][i] # v
                    THEN /\ l_status' = [ l_status EXCEPT ![l] = "panic_learned_value" ]
                         /\ UNCHANGED << l_num_of_instances, l_stdout >>
                    ELSE /\ l_num_of_instances' =
                               [ l_num_of_instances EXCEPT ![l] = r.num_of_instances ]
                         /\ l_stdout' = [ l_stdout EXCEPT ![l] = r.stdout ]
                         /\ UNCHANGED l_status
    /\ UNCHANGED << proposer_vars, acceptor_vars, env_vars >>

\* ------------------------------------------------------------ specification

\* The steps of Paxos proper: Request, Preparation, Promise, Proposal,
\* Acceptance (and the Learning that decide broadcasts).
CoreStep ==
    \/ \E c \in Clients, v \in Values : ClientRequest(c, v)
    \/ \E p \in Proposers : ProposerStart(p)
    \/ \E p \in Proposers : HandleRequest(p)
    \/ \E p \in Proposers : HandlePromise(p)
    \/ \E p \in Proposers : HandleAcceptance(p)
    \/ \E a \in Acceptors : HandlePreparation(a)
    \/ \E a \in Acceptors : HandleProposal(a)

\* The steps of the learners and of the catch-up they ask for.
LearnerStep ==
    \/ \E p \in Proposers : HandleCatchUp(p)
    \/ \E l \in Learners : LearnerStart(l)
    \/ \E l \in Learners : HandleReportLearner(l)
    \/ \E l \in Learners : HandleLearning(l)

\* Every step of the system.
Next ==
    \/ CoreStep
    \/ LearnerStep
    \/ \E p \in Proposers : HandleReportProposer(p)

\* One proposer (id 1), three acceptors, one learner, two clients, from
\* construction, no datagram lost for good.  A single proposer answers no
\* CatchUp of a proposer, so no Report is ever sent to the proposer group.
Spec == Init /\ [][CoreStep \/ LearnerStep]_vars

\* The variants of Message<T>.
MessageTypes ==
    { "Phase0a", "Phase0b", "Phase0c", "Phase1a", "Phase1b", "Phase1c",
      "Phase2a", "Phase2b", "Phase3" }

\* A link that loses every datagram.
Link(from, to) == { << from, to, t >> : t \in MessageTypes }

\* In the contended runs the proposers and the clients never hear each other:
\* each proposer hears one client only and no proposer (not even its own
\* multicast).
ProposerLinksDown ==
    Link(Uuid("c", 1), Uuid("p", 2)) \cup Link(Uuid("c", 2), Uuid("p", 1))
    \cup UNION { Link(Uuid("p", p), Uuid("p", q)) : p, q \in Proposers }

\* Two proposers (ids 1 and 2) that compete for the same instance, three
\* acceptors, no learner.  Proposer 1 does not reach acceptor 3; proposer 2
\* does not reach acceptor 1 and does not hear it.
ContentionLinks ==
    ProposerLinksDown
    \cup Link(Uuid("p", 1), Uuid("a", 3)) \cup Link(Uuid("p", 2), Uuid("a", 1))
    \cup Link(Uuid("a", 1), Uuid("p", 2))

InitContention ==
    Constructed(TwoProposers, [ l \in Learners |-> "absent" ],
                ContentionLinks)

SpecContention == InitContention /\ [][CoreStep]_vars

\* Two competing proposers, three acceptors, no learner.  Proposer 2 reaches
\* and hears every acceptor, but its Proposals do not reach acceptor 3.
\* Proposer 1 reaches acceptors 1 and 3 (its Proposals acceptor 3 only), hears
\* their Promises and loses every Acceptance.
RevoteLinks ==
    ProposerLinksDown
    \cup Link(Uuid("p", 1), Uuid("a", 2)) \cup Link(Uuid("a", 2), Uuid("p", 1))
    \cup { << Uuid("a", a), Uuid("p", 1), "Phase2b" >> : a \in Acceptors }
    \cup { << Uuid("p", 1), Uuid("a", 1), "Phase2a" >>,
           << Uuid("p", 2), Uuid("a", 3), "Phase2a" >> }

InitRevote ==
    Constructed(TwoProposers, [ l \in Learners |-> "absent" ],
                RevoteLinks)

SpecRevote == InitRevote /\ [][CoreStep]_vars

\* Two competing proposers, three acceptors, two learners.  Proposer 1 reaches
\* acceptors 1 and 2 and hears them; proposer 2 reaches acceptors 2 and 3 and
\* hears them.  Learner 1 hears proposer 2 only and its CatchUp is lost;
\* learner 2 hears both proposers and its CatchUp reaches proposer 1 only.
CatchUpLinks ==
    ProposerLinksDown
    \cup Link(Uuid("p", 1), Uuid("a", 3)) \cup Link(Uuid("a", 3), Uuid("p", 1))
    \cup Link(Uuid("p", 2), Uuid("a", 1)) \cup Link(Uuid("a", 1), Uuid("p", 2))
    \cup Link(Uuid("l", 1), Uuid("p", 1)) \cup Link(Uuid("l", 1), Uuid("p", 2))
    \cup Link(Uuid("l", 2), Uuid("p", 2)) \cup Link(Uuid("p", 1), Uuid("l", 1))

InitCatchUp ==
    Constructed(TwoProposers, [ l \in Learners |-> "new" ],
                CatchUpLinks)

SpecCatchUp == InitCatchUp /\ [][CoreStep \/ LearnerStep]_vars

\* Two competing proposers, three acceptors, two learners whose CatchUps are
\* lost, a transport that duplicates.  Proposer 1 reaches acceptors 1 and 2,
\* hears their Promises and the Acceptances of acceptor 1 only; proposer 2
\* reaches acceptors 2 and 3 and hears them.  Learner 1 hears proposer 1 only,
\* learner 2 proposer 2 only.
ReplayLinks ==
    ProposerLinksDown
    \cup Link(Uuid("p", 1), Uuid("a", 3)) \cup Link(Uuid("a", 3), Uuid("p", 1))
    \cup Link(Uuid("p", 2), Uuid("a", 1)) \cup Link(Uuid("a", 1), Uuid("p", 2))
    \cup { << Uuid("a", 2), Uuid("p", 1), "Phase2b" >> }
    \cup UNION { Link(Uuid("l", l), Uuid("p", p)) : l \in Learners, p \in Proposers }
    \cup Link(Uuid("p", 1), Uuid("l", 2)) \cup Link(Uuid("p", 2), Uuid("l", 1))

InitReplay ==
    Constructed(TwoProposers, [ l \in Learners |-> "new" ],
                ReplayLinks)

\* Client 1 asks for 7 and client 2 for 42.
ReplayStep ==
    \/ ClientRequest(1, 7)
    \/ ClientRequest(2, 42)
    \/ \E p \in Proposers : ProposerStart(p)
    \/ \E p \in Proposers : HandleRequest(p)
    \/ \E p \in Proposers : HandlePromise(p)
    \/ \E p \in Proposers : HandleAcceptance(p)
    \/ \E a \in Acceptors : HandlePreparation(a)
    \/ \E a \in Acceptors : HandleProposal(a)
    \/ \E l \in Learners : LearnerStart(l)
    \/ \E l \in Learners : HandleLearning(l)
    \/ \E dm \in BagToSet(net) : Replay(dm)

SpecReplay == InitReplay /\ [][ReplayStep]_vars

\* Two proposers that share the clients' Requests, three acceptors, no
\* learner.  Proposer 1 hears both clients, proposer 2 client 2 only.  The
\* CatchUp of proposer 1 reaches proposer 2, whose Report reaches proposer 1;
\* the CatchUp of proposer 2 is lost.  Proposer 1 reaches acceptors 1 and 2
\* and hears acceptors 1 and 2, but of acceptor 1 no Acceptance; proposer 2
\* reaches acceptors 2 and 3 and hears them.
ReportLinks ==
    Link(Uuid("c", 1), Uuid("p", 2))
    \cup { << Uuid("p", 2), Uuid("p", p), "Phase0b" >> : p \in Proposers }
    \cup { << Uuid("p", 1), Uuid("p", 1), "Phase0b" >>,
           << Uuid("p", 2), Uuid("p", 2), "Phase0c" >>,
           << Uuid("a", 1), Uuid("p", 1), "Phase2b" >>,
           << Uuid("a", 3), Uuid("p", 1), "Phase1b" >> }
    \cup Link(Uuid("p", 1), Uuid("a", 3))
    \cup Link(Uuid("p", 2), Uuid("a", 1)) \cup Link(Uuid("a", 1), Uuid("p", 2))

InitReport ==
    Constructed(TwoProposers, [ l \in Learners |-> "absent" ],
                ReportLinks)

ReportStep ==
    \/ CoreStep
    \/ \E p \in Proposers : HandleCatchUp(p)
    \/ \E p \in Proposers : HandleReportProposer(p)

SpecReport == InitReport /\ [][ReportStep]_vars

\* The steps of the run method of a process, but for the Requests and the
\* Reports a proposer handles.
ProposerRun(p) ==
    \/ ProposerStart(p)
    \/ HandleCatchUp(p)
    \/ HandlePromise(p)
    \/ HandleAcceptance(p)

AcceptorRun(a) == HandlePreparation(a) \/ HandleProposal(a)

LearnerRun(l) == LearnerStart(l) \/ HandleReportLearner(l) \/ HandleLearning(l)

\* The receive loop of a process never ends and receive returns the datagrams
\* that are in the socket: a process that has a datagram to handle eventually
\* handles one.  P and L are the proposers and learners of the run.
LoopFairness(P, L) ==
    /\ \A p \in P : WF_vars(ProposerRun(p))
    /\ \A a \in Acceptors : WF_vars(AcceptorRun(a))
    /\ \A l \in L : WF_vars(LearnerRun(l))

\* One proposer (id 1), three acceptors, two learners.  Every datagram sent
\* to acceptor 3 is lost; every other datagram is delivered.
MinorityLossLinks ==
    UNION { Link(Uuid("p", p), Uuid("a", 3)) : p \in Proposers }

InitMinorityLoss ==
    Constructed([ p \in Proposers |-> IF p = 1 THEN "new" ELSE "absent" ],
                [ l \in Learners |-> "new" ], MinorityLossLinks)

SpecMinorityLoss ==
    InitMinorityLoss /\ [][CoreStep \/ LearnerStep]_vars
    /\ LoopFairness({1}, Learners)

\* One proposer (id 1), three acceptors, one learner, from construction, no
\* datagram lost.  A client sends its Request when no datagram is in flight:
\* the Requests are sent one after the other, as in scenario S2.
InitInOrder ==
    Constructed([ p \in Proposers |-> IF p = 1 THEN "new" ELSE "absent" ],
                [ l \in Learners |-> IF l = 1 THEN "new" ELSE "absent" ], {})

InOrderStep ==
    \/ \E c \in Clients, v \in Values : net = EmptyBag /\ ClientRequest(c, v)
    \/ ProposerStart(1)
    \/ HandleRequestWithin(1, MaxInstanceInOrder)
    \/ HandleCatchUp(1)
    \/ HandlePromise(1)
    \/ HandleAcceptance(1)
    \/ \E a \in Acceptors : HandlePreparation(a)
    \/ \E a \in Acceptors : HandleProposal(a)
    \/ LearnerStart(1)
    \/ HandleReportLearner(1)
    \/ HandleLearning(1)

SpecInOrder == InitInOrder /\ [][InOrderStep]_vars /\ LoopFairness({1}, {1})

\* The state when proposer 1, in its receive loop, has learned the values of
\* instances 1..k (handle_catch_up reads num_of_instances and learned_values
\* only): p2 and p3 are the status of proposers 2 and 3; learner 2 is
\* constructed, no datagram is in a socket, and links are the links that lose
\* every datagram from then on.
LearnedBefore(p2, p3, links) ==
    /\ down = links
    /\ p_status = [ p \in Proposers |-> IF p = 1 THEN "running"
                                        ELSE IF p = 2 THEN p2
                                        ELSE IF p = 3 THEN p3 ELSE "absent" ]
    /\ proposer_states = [ p \in Proposers |-> EmptyMap ]
    /\ \E k \in 1..MaxLearnedBefore : \E lv \in [ 1..k -> Values ] :
          /\ num_of_instances = [ p \in Proposers |-> IF p = 1 THEN k ELSE 0 ]
          /\ learned_values =
                 [ p \in Proposers |-> IF p = 1 THEN lv ELSE EmptyMap ]
    /\ a_status = [ a \in Acceptors |-> "running" ]
    /\ acceptor_states = [ a \in Acceptors |-> EmptyMap ]
    /\ answered = [ a \in Acceptors |-> EmptyBag ]
    /\ l_status = [ l \in Learners |-> IF l = 2 THEN "new" ELSE "absent" ]
    /\ l_learned_values = [ l \in Learners |-> EmptyMap ]
    /\ l_num_of_instances = [ l \in Learners |-> 1 ]
    /\ l_stdout = [ l \in Learners |-> << >> ]
    /\ net = EmptyBag
    /\ injected = 0
    /\ requested = {}
    /\ num_requests = [ c \in Clients |-> 0 ]
    /\ promises_recorded = [ p \in Proposers |-> EmptyMap ]
    /\ broadcast = [ p \in Proposers |-> {} ]
    /\ held = [ p \in Proposers |-> Entries(learned_values[p]) ]

\* A late learner: learner 2 is constructed when proposer 1 has learned the
\* values of instances 1..k; no datagram is lost.
InitLateLearner == LearnedBefore("absent", "absent", {})

\* The Learnings proposer 1 broadcasts later: for an instance it had not
\* learned when the learner was constructed, one value for an instance.
LaterLearnings ==
    { m \in { [ type |-> "Phase3", learned_value |-> v, sender |-> Uuid("p", 1),
                instance |-> i ] : v \in Values, i \in 1..MaxInjectedInstance } :
        /\ m.instance \notin DOMAIN learned_values[1]
        /\ \A dm \in BagToSet(net) :
              (dm[2].type = "Phase3" /\ dm[2].instance = m.instance)
                  => dm[2].learned_value = m.learned_value
        /\ m.instance \in DOMAIN l_learned_values[2]
              => l_learned_values[2][m.instance] = m.learned_value }

LateLearnerStep ==
    \/ LearnerStart(2)
    \/ HandleCatchUp(1)
    \/ \E m \in LaterLearnings : Inject(Uuid("l", 2), m)
    \/ HandleReportLearner(2)
    \/ HandleLearning(2)

SpecLateLearner ==
    InitLateLearner /\ [][LateLearnerStep]_vars /\ LoopFairness({1}, {2})

\* The catch-up of a proposer and of a learner that start late: proposer 2
\* and learner 2 are constructed when proposer 1 has learned the values of
\* instances 1..k.  The CatchUp of proposer 2 reaches both proposers, the
\* CatchUp of learner 2 too.
InitCatchUpReply == LearnedBefore("new", "absent", {})

CatchUpReplyStep ==
    \/ ProposerStart(2)
    \/ LearnerStart(2)
    \/ \E p \in {1, 2} : HandleCatchUp(p)
    \/ \E p \in {1, 2} : HandleReportProposer(p)
    \/ HandleReportLearner(2)

SpecCatchUpReply == InitCatchUpReply /\ [][CatchUpReplyStep]_vars

\* Two proposers and a learner that start late: proposers 2 and 3 and learner
\* 2 are constructed when proposer 1 has learned the values of instances 1..k.
\* The CatchUp of proposer 2 is lost, the CatchUp of proposer 3 reaches
\* proposers 1 and 2, whose Reports reach proposer 3 only; the CatchUp of
\* learner 2 reaches every proposer.
LateProposersLinks ==
    { << Uuid("p", 2), Uuid("p", q), "Phase0b" >> : q \in Proposers }
    \cup { << Uuid("p", 3), Uuid("p", 3), "Phase0b" >> }
    \cup { << Uuid("p", p), Uuid("p", q), "Phase0c" >> :
               p \in Proposers, q \in {1, 2} }

InitLateProposers == LearnedBefore("new", "new", LateProposersLinks)

LateProposersStep ==
    \/ \E p \in {2, 3} : ProposerStart(p)
    \/ LearnerStart(2)
    \/ \E p \in Proposers : HandleCatchUp(p)
    \/ \E p \in Proposers : HandleReportProposer(p)
    \/ HandleReportLearner(2)

SpecLateProposers == InitLateProposers /\ [][LateProposersStep]_vars

\* Two proposers (ids 1 and 2), three acceptors, one learner, one Request that
\* both proposers receive.  Every Request, Preparation, Promise, Proposal,
\* Acceptance and Learning reaches every member of its group; the CatchUps
\* and the Reports are lost.
SeveralProposersLinks ==
    { << from, to, t >> : from \in { Uuid("p", p) : p \in Proposers }
                                  \cup { Uuid("l", l) : l \in Learners },
                         to \in { Uuid("p", p) : p \in Proposers }
                                \cup { Uuid("l", l) : l \in Learners },
                         t \in { "Phase0b", "Phase0c" } }

InitSeveralProposers ==
    Constructed(TwoProposers,
                [ l \in Learners |-> IF l = 1 THEN "new" ELSE "absent" ],
                SeveralProposersLinks)

\* The proposers and the learner are in their receive loops and have no
\* datagram to handle.
ProposersIdle ==
    /\ \A p \in {1, 2} : p_status[p] = "running"
    /\ \A p \in Proposers : receivable(Uuid("p", p)) = {}
    /\ l_status[1] = "running"
    /\ receivable(Uuid("l", 1)) = {}

\* The runs in which the proposers and the learner are quick: an acceptor
\* handles its next datagram when they have handled all of theirs.  The
\* order in which the acceptors handle their datagrams, and the proposers and
\* the learner theirs, is free.
SeveralProposersStep ==
    \/ ClientRequest(1, 7)
    \/ \E p \in Proposers : ProposerStart(p)
    \/ \E p \in Proposers : HandleRequest(p)
    \/ \E p \in Proposers : HandlePromise(p)
    \/ \E p \in Proposers : HandleAcceptance(p)
    \/ \E a \in Acceptors : ProposersIdle /\ HandlePreparation(a)
    \/ \E a \in Acceptors : ProposersIdle /\ HandleProposal(a)
    \/ LearnerStart(1)
    \/ HandleLearning(1)

SpecSeveralProposers == InitSeveralProposers /\ [][SeveralProposersStep]_vars

\* Three proposers (ids 1, 2 and 3: rounds 1, 2 and 3 of instance 1), three
\* acceptors, no learner, a transport that drops and reorders.  Client 1 (7)
\* reaches proposers 1 and 3, client 2 (42) proposer 2; no proposer hears
\* another.  Proposer 1 reaches acceptors 1 and 3 (its Proposals acceptor 1
\* only), proposer 2 acceptors 2 and 3 (its Proposals acceptors 1 and 2),
\* proposer 3 acceptors 1 and 3 (its Proposals none).  A proposer hears the
\* Promises of the acceptors it reaches; proposer 2 alone hears Acceptances,
\* those of acceptor 2.
ThreeRoundsLinks ==
    UNION { Link(Uuid("p", p), Uuid("p", q)) : p, q \in Proposers }
    \cup Link(Uuid("c", 1), Uuid("p", 2))
    \cup Link(Uuid("c", 2), Uuid("p", 1)) \cup Link(Uuid("c", 2), Uuid("p", 3))
    \cup Link(Uuid("p", 1), Uuid("a", 2)) \cup Link(Uuid("p", 3), Uuid("a", 2))
    \cup { << Uuid("p", 2), Uuid("a", 1), "Phase1a" >>,
           << Uuid("p", 1), Uuid("a", 3), "Phase2a" >>,
           << Uuid("p", 2), Uuid("a", 3), "Phase2a" >>,
           << Uuid("p", 3), Uuid("a", 1), "Phase2a" >>,
           << Uuid("p", 3), Uuid("a", 3), "Phase2a" >> }
    \cup ( { << Uuid("a", a), Uuid("p", p), "Phase1b" >>
             : a \in Acceptors, p \in Proposers } \
           { << Uuid("a", 1), Uuid("p", 1), "Phase1b" >>,
             << Uuid("a", 3), Uuid("p", 1), "Phase1b" >>,
             << Uuid("a", 2), Uuid("p", 2), "Phase1b" >>,
             << Uuid("a", 3), Uuid("p", 2), "Phase1b" >>,
             << Uuid("a", 1), Uuid("p", 3), "Phase1b" >>,
             << Uuid("a", 3), Uuid("p", 3), "Phase1b" >> } )
    \cup ( { << Uuid("a", a), Uuid("p", p), "Phase2b" >>
             : a \in Acceptors, p \in Proposers } \
           { << Uuid("a", 2), Uuid("p", 2), "Phase2b" >> } )

InitThreeRounds ==
    Constructed([ p \in Proposers |-> IF p \in {1, 2, 3} THEN "new"
                                                        ELSE "absent" ],
                [ l \in Learners |-> "absent" ], ThreeRoundsLinks)

ThreeRoundsStep ==
    \/ ClientRequest(1, 7)
    \/ ClientRequest(2, 42)
    \/ \E p \in Proposers : ProposerStart(p)
    \/ \E p \in Proposers : HandleRequest(p)
    \/ \E p \in Proposers : HandlePromise(p)
    \/ \E p \in Proposers : HandleAcceptance(p)
    \/ \E a \in Acceptors : HandlePreparation(a)
    \/ \E a \in Acceptors : HandleProposal(a)

SpecThreeRounds == InitThreeRounds /\ [][ThreeRoundsStep]_vars

\* The maps instance -> value over the instances a datagram may name.
InjectedMaps ==
    UNION { [ D -> Values ] : D \in SUBSET (1..MaxInjectedInstance) }

\* The Preparations and Proposals that may arrive at an acceptor.
AcceptorInputs ==
    { [ type |-> "Phase1a", c_rnd |-> r, sender |-> Uuid("p", p), instance |-> i ]
      : r \in 0..MaxInjectedRound, p \in {1, 2}, i \in 1..MaxInjectedInstance }
    \cup { [ type |-> "Phase2a", c_rnd |-> r, c_val |-> Some(v),
             sender |-> Uuid("p", p), instance |-> i ]
           : r \in 0..MaxInjectedRound, v \in Values, p \in {1, 2},
             i \in 1..MaxInjectedInstance }

\* The Reports (to the learner itself or to another one) and Learnings that
\* may arrive at learner l.
LearnerInputs(l) ==
    { [ type |-> "Phase0c", num_of_instances |-> Cardinality(DOMAIN lv),
        learned_values |-> lv, sender |-> Uuid("p", 1), receiver |-> Uuid("l", k) ]
      : lv \in InjectedMaps, k \in Learners }
    \cup { [ type |-> "Phase3", learned_value |-> v, sender |-> Uuid("p", 1),
             instance |-> i ] : v \in Values, i \in 1..MaxInjectedInstance }

\* One acceptor's loop on any Preparations and Proposals, in any order.
InitAcceptor ==
    Constructed([ p \in Proposers |-> "absent" ], [ l \in Learners |-> "absent" ],
                {})

AcceptorStep ==
    \/ \E m \in AcceptorInputs : Inject(Uuid("a", 1), m)
    \/ HandlePreparation(1)
    \/ HandleProposal(1)

SpecAcceptor == InitAcceptor /\ [][AcceptorStep]_vars

\* One learner's loop on any Reports and Learnings, in any order.
InitLearner ==
    Constructed([ p \in Proposers |-> "absent" ],
                [ l \in Learners |-> IF l = 1 THEN "new" ELSE "absent" ], {})

LearnerLoopStep ==
    \/ LearnerStart(1)
    \/ \E m \in LearnerInputs(1) : Inject(Uuid("l", 1), m)
    \/ HandleReportLearner(1)
    \/ HandleLearning(1)

SpecLearner == InitLearner /\ [][LearnerLoopStep]_vars

\* One learner's loop on any Learnings, copies of one Learning included, in
\* any order.
Learnings ==
    { [ type |-> "Phase3", learned_value |-> v, sender |-> Uuid("p", 1),
        instance |-> i ] : v \in Values, i \in 1..MaxInjectedInstance }

LearningsStep ==
    \/ LearnerStart(1)
    \/ \E m \in Learnings : Inject(Uuid("l", 1), m)
    \/ HandleLearning(1)

SpecLearnings == InitLearner /\ [][LearningsStep]_vars

\* A proposer started with id 0, three acceptors: the two Requests reach the
\* proposer, which starts an instance for each, and its Preparations reach
\* every acceptor.
InitIdZero ==
    Constructed([ p \in Proposers |-> IF p = 0 THEN "new" ELSE "absent" ],
                [ l \in Learners |-> "absent" ], {})

IdZeroStep ==
    \/ \E c \in Clients, v \in Values : ClientRequest(c, v)
    \/ ProposerStart(0)
    \/ HandleRequestWithin(0, MaxInstanceInOrder)
    \/ \E a \in Acceptors : HandlePreparation(a)

SpecIdZero == InitIdZero /\ [][IdZeroStep]_vars

\* The variants the match of each run loop has no arm for.
ProposerUnexpected == { "Phase1a", "Phase1c", "Phase2a", "Phase3" }

AcceptorUnexpected == MessageTypes \ { "Phase1a", "Phase2a" }

LearnerUnexpected == MessageTypes \ { "Phase0c", "Phase3" }

\* A wildcard arm that sends the datagram back to its sender.
returned_to_sender(dm) ==
    received(dm) (+) SetToBag({ << dm[2].sender, dm[2] >> })

\* The wildcard arm of the run loops: the datagram is logged and dropped.
ignored(dm) == received(dm)

\* Proposer::run, wildcard arm.
ProposerIgnore(p) ==
    /\ p_status[p] = "running"
    /\ \E dm \in receivable(Uuid("p", p)) :
        /\ dm[2].type \in ProposerUnexpected
        /\ net' = ignored(dm)
    /\ UNCHANGED << proposer_vars, acceptor_vars, learner_vars, env_vars >>

\* Acceptor::run, wildcard arm.
AcceptorIgnore(a) ==
    /\ a_status[a] = "running"
    /\ \E dm \in receivable(Uuid("a", a)) :
        /\ dm[2].type \in AcceptorUnexpected
        /\ net' = ignored(dm)
    /\ UNCHANGED << proposer_vars, acceptor_vars, learner_vars, env_vars >>

\* Learner::run, wildcard arm.
LearnerIgnore(l) ==
    /\ l_status[l] = "running"
    /\ \E dm \in receivable(Uuid("l", l)) :
        /\ dm[2].type \in LearnerUnexpected
        /\ net' = ignored(dm)
    /\ UNCHANGED << proposer_vars, acceptor_vars, learner_vars, env_vars >>

\* One message of each variant, as it may arrive at the socket of process to.
VariantAt(type, to) ==
    CASE type = "Phase0a" ->
           [ type |-> type, value |-> 42, sender |-> Uuid("c", 2) ]
      [] type = "Phase0b" ->
           [ type |-> type, sender |-> Uuid("l", 2), sender_type |-> "l" ]
      [] type = "Phase0c" ->
           [ type |-> type, num_of_instances |-> 1, learned_values |-> << 42 >>,
             sender |-> Uuid("p", 2), receiver |-> to ]
      [] type = "Phase1a" ->
           [ type |-> type, c_rnd |-> 2, sender |-> Uuid("p", 2), instance |-> 1 ]
      [] type = "Phase1b" ->
           [ type |-> type, rnd |-> 2, v_rnd |-> 0, v_val |-> None,
             sender |-> Uuid("a", 2), receiver |-> to, instance |-> 1 ]
      [] type = "Phase1c" ->
           [ type |-> type, v_rnd |-> 1, sender |-> Uuid("a", 2),
             receiver |-> to, instance |-> 1 ]
      [] type = "Phase2a" ->
           [ type |-> type, c_rnd |-> 2, c_val |-> Some(42),
             sender |-> Uuid("p", 2), instance |-> 1 ]
      [] type = "Phase2b" ->
           [ type |-> type, v_rnd |-> 2, v_val |-> Some(42),
             sender |-> Uuid("a", 2), receiver |-> to, instance |-> 1 ]
      [] type = "Phase3" ->
           [ type |-> type, learned_value |-> 42, sender |-> Uuid("p", 2),
             instance |-> 1 ]

\* Proposer 1, acceptor 1 and learner 1 on variants their loops have no arm
\* for, which arrive at any time while proposer 1 prepares an instance and
\* acceptor 1 answers its Preparation.
IgnoreStep ==
    \/ ClientRequest(1, 7)
    \/ ProposerStart(1)
    \/ LearnerStart(1)
    \/ HandleRequest(1)
    \/ HandlePreparation(1)
    \/ \E t \in ProposerUnexpected :
          Inject(Uuid("p", 1), VariantAt(t, Uuid("p", 1)))
    \/ \E t \in AcceptorUnexpected :
          Inject(Uuid("a", 1), VariantAt(t, Uuid("a", 1)))
    \/ \E t \in LearnerUnexpected :
          Inject(Uuid("l", 1), VariantAt(t, Uuid("l", 1)))
    \/ ProposerIgnore(1)
    \/ AcceptorIgnore(1)
    \/ LearnerIgnore(1)

SpecIgnore == Init /\ [][IgnoreStep]_vars

\* The Promises and Reports, addressed to proposer 1 or to proposer 2, that
\* may arrive at the socket of proposer 1.
ProposerInputs ==
    { [ type |-> "Phase1b", rnd |-> 1, v_rnd |-> vote[1], v_val |-> vote[2],
        sender |-> Uuid("a", 1), receiver |-> Uuid("p", q), instance |-> 1 ]
      : vote \in { << 0, None >>, << 1, Some(42) >> }, q \in {1, 2} }
    \cup { [ type |-> "Phase0c", num_of_instances |-> Cardinality(DOMAIN lv),
             learned_values |-> lv, sender |-> Uuid("p", 2),
             receiver |-> Uuid("p", q) ]
           : lv \in [ {} -> Values ] \cup [ {1} -> Values ], q \in {1, 2} }

\* The Reports a proposer sends to learner 2, which the multicast group
\* delivers to the socket of learner 1 as well.
LearnerReports ==
    { [ type |-> "Phase0c", num_of_instances |-> Cardinality(DOMAIN lv),
        learned_values |-> lv, sender |-> Uuid("p", 1),
        receiver |-> Uuid("l", 2) ]
      : lv \in [ {} -> Values ] \cup [ {1} -> Values ] }

\* The loops of proposer 1 and of learner 1 on the messages of a run and on
\* any Promises and Reports addressed to them or to another process.
InitFilter ==
    Constructed([ p \in Proposers |-> IF p = 1 THEN "new" ELSE "absent" ],
                [ l \in Learners |-> IF l = 1 THEN "new" ELSE "absent" ], {})

FilterStep ==
    \/ ClientRequest(1, 7)
    \/ ProposerStart(1)
    \/ HandleRequest(1)
    \/ HandleCatchUp(1)
    \/ \E m \in ProposerInputs : Inject(Uuid("p", 1), m)
    \/ HandlePromise(1)
    \/ HandleReportProposer(1)
    \/ LearnerStart(1)
    \/ \E m \in LearnerReports : Inject(Uuid("l", 1), m)
    \/ HandleReportLearner(1)

SpecFilter == InitFilter /\ [][FilterStep]_vars

\* ---------------------------------------------------------------- claims

\* C1 (Agreement): for every instance, any two values that two learners have
\* emitted for it are equal.
C1_Agreement ==
    \A l1, l2 \in Learners : \A k1 \in 1..Len(l_stdout[l1]) :
        \A k2 \in 1..Len(l_stdout[l2]) :
            l_stdout[l1][k1][1] = l_stdout[l2][k2][1]
                => l_stdout[l1][k1][2] = l_stdout[l2][k2][2]

\* C2 (Total order at a learner): the instances a learner has emitted are
\* exactly 1, 2, ..., k in this order, and the next instance it will emit is
\* k + 1.
C2_TotalOrder ==
    \A l \in Learners :
        /\ \A k \in 1..Len(l_stdout[l]) : l_stdout[l][k][1] = k
        /\ l_num_of_instances[l] = Len(l_stdout[l]) + 1

\* C2, its case: the learner has emitted a value and holds the value of an
\* instance beyond a gap.
C2_Witness ==
    /\ Len(l_stdout[1]) >= 1
    /\ \E i \in DOMAIN l_learned_values[1] : i > l_num_of_instances[1]

\* C3 (Validity): every value a learner has emitted is the value of a Request
\* a client has sent.
C3_Validity ==
    \A l \in Learners : \A k \in 1..Len(l_stdout[l]) :
        l_stdout[l][k][2] \in requested

\* C3, its case: a learner has emitted a value in a run where the clients
\* requested two different values.
C3_Witness ==
    /\ Cardinality(requested) = 2
    /\ \E l \in Learners : Len(l_stdout[l]) >= 1

\* C4 (proposer safety check (a)): decide never finds a recorded learned
\* value that differs from the v_val it records, so no proposer is aborted by
\* the assert_eq on learned_values.
C4_LearnedValueCheckNeverFires ==
    \A p \in Proposers : p_status[p] # "panic_learned_value"

\* C5 (proposer safety check (b)): when decide holds a majority of v_rnd all
\* equal to c_rnd, c_val is set and equals the v_val of the Acceptance, so no
\* proposer is aborted by the unwrap or the assert_eq on c_val.
C5_CValCheckNeverFires ==
    \A p \in Proposers : p_status[p] \notin { "panic_c_val", "panic_unwrap" }

\* C6 (learner safety check): handle_learning never finds a held value that
\* differs from the learned value of the Learning, so no learner is aborted.
C6_LearnerCheckNeverFires ==
    \A l \in Learners : l_status[l] # "panic_learned_value"

\* The maps instance -> learned value that proposers hold or have put into
\* Reports that are still in flight.
ReportedMaps ==
    { learned_values[p] : p \in Proposers }
    \cup { dm[2].learned_values :
             dm \in { d \in BagToSet(net) : d[2].type = "Phase0c" } }

\* C7 (learned values are equal across proposers): any two maps that
\* proposers hold or have reported give the same value to every instance
\* they both contain.
C7_ProposersAgree ==
    \A m1, m2 \in ReportedMaps : \A i \in DOMAIN m1 \cap DOMAIN m2 : m1[i] = m2[i]

\* The highest v_rnd among the Promises proposer p has recorded for instance i.
HighestPromised(p, i) ==
    CHOOSE r \in { pr[1] : pr \in promises_recorded[p][i] } :
        \A pr \in promises_recorded[p][i] : pr[1] <= r

\* The Proposals proposer p broadcasts in a step: the Proposals it has sent of
\* which the sockets hold more copies after the step than before.
ProposalsSent(p) ==
    { dm[2] : dm \in { d \in BagToSet(net') :
                         /\ d[2].type = "Phase2a"
                         /\ d[2].sender = Uuid("p", p)
                         /\ CopiesIn(d, net') > CopiesIn(d, net) } }

\* C8 (Proposer-quorum rule): whenever a proposer broadcasts a Proposal for
\* instance i, either no Promise it has recorded for i reported a vote and
\* c_val is the value of the Request that started i, or c_val is a v_val
\* reported together with the highest v_rnd among the recorded Promises.
C8_ProposerQuorumRule ==
    [][ \A p \in Proposers : \A m \in ProposalsSent(p) :
          LET i == m.instance
          IN  /\ i \in DOMAIN promises_recorded'[p]
              /\ \/ /\ HighestPromised(p, i)' = 0
                    /\ m.c_val = proposer_states'[p][i].value
                 \/ /\ HighestPromised(p, i)' > 0
                    /\ << HighestPromised(p, i)', m.c_val >>
                           \in promises_recorded'[p][i] ]_vars

\* C8, its case: a proposer has broadcast a Proposal whose value is not the
\* one it was asked to propose, after a Promise reported a vote.
C8_Witness ==
    \E p \in Proposers : \E dm \in BagToSet(net) :
        /\ dm[2].type = "Phase2a"
        /\ dm[2].sender = Uuid("p", p)
        /\ dm[2].instance \in DOMAIN proposer_states[p]
        /\ proposer_states[p][dm[2].instance].highest_v_rnd_received > 0
        /\ dm[2].c_val # proposer_states[p][dm[2].instance].value

\* C9 (Acceptor monotonicity of rnd): in every step of an acceptor, the rnd of
\* every instance it has a record of does not decrease.
C9_RndNeverDecreases ==
    [][ \A a \in Acceptors : \A i \in DOMAIN acceptor_states[a] :
          /\ i \in DOMAIN acceptor_states'[a]
          /\ acceptor_states'[a][i].rnd >= acceptor_states[a][i].rnd ]_vars

\* C9, its case: an acceptor that has promised and voted finds in its socket
\* a Preparation of a round below its rnd.
C9_Witness ==
    \E dm \in receivable(Uuid("a", 1)) :
        /\ dm[2].type = "Phase1a"
        /\ dm[2].instance \in DOMAIN acceptor_states[1]
        /\ dm[2].c_rnd < acceptor_states[1][dm[2].instance].rnd
        /\ acceptor_states[1][dm[2].instance].v_rnd >= 1

\* C10 (v_rnd <= rnd after any accept): for every acceptor and instance, the
\* round of the vote is not above the round the acceptor participates in.
C10_VRndAtMostRnd ==
    \A a \in Acceptors : \A i \in DOMAIN acceptor_states[a] :
        acceptor_states[a][i].v_rnd <= acceptor_states[a][i].rnd

\* C11 (v_val changes only with a strictly higher v_rnd): in every step of an
\* acceptor, for every instance whose v_val is set and becomes a different
\* value, v_rnd strictly increases.
C11_VValChangeRaisesVRnd ==
    [][ \A a \in Acceptors : \A i \in DOMAIN acceptor_states[a] :
          ( /\ acceptor_states[a][i].v_val # None
            /\ acceptor_states'[a][i].v_val # acceptor_states[a][i].v_val )
          => acceptor_states'[a][i].v_rnd > acceptor_states[a][i].v_rnd ]_vars

\* The values the learners have emitted for instance i.
EmittedFor(i) ==
    UNION { { l_stdout[l][k][2] :
                k \in { j \in 1..Len(l_stdout[l]) : l_stdout[l][j][1] = i } }
            : l \in Learners }

\* Without a replayed delivery the learners of the run emit one value at most
\* for an instance.
C12_WithoutReplay ==
    injected = 0 => \A i \in 1..MaxInstance : Cardinality(EmittedFor(i)) <= 1

\* C12 (duplicate delivery is harmless): replayed deliveries of Promises,
\* Acceptances and Learnings do not change the value a learner emits for an
\* instance: as in the run without them, the learners emit one value at most
\* for an instance.
C12_ReplayHarmless ==
    \A i \in 1..MaxInstance : Cardinality(EmittedFor(i)) <= 1

\* The messages of a type that proposer p has broadcast so far.
Broadcast(p, type) == { m \in broadcast[p] : m.type = type }

\* The messages of a type that proposer p broadcasts in a step.
BroadcastNow(p, type) == { m \in broadcast'[p] \ broadcast[p] : m.type = type }

\* C13 (round distinguishability): two Preparations that two distinct
\* proposers have broadcast for the same instance never carry the same c_rnd.
C13_RoundsDistinguishable ==
    \A p, q \in Proposers : \A m1 \in Broadcast(p, "Phase1a") :
        \A m2 \in Broadcast(q, "Phase1a") :
            (p # q /\ m1.instance = m2.instance) => m1.c_rnd # m2.c_rnd

\* C14 (every Request starts a new instance): the instance of a Preparation a
\* proposer broadcasts is above the instance of every Preparation it has
\* broadcast before.
C14_InstancesStrictlyIncrease ==
    [][ \A p \in Proposers : \A m \in BroadcastNow(p, "Phase1a") :
          \A m0 \in Broadcast(p, "Phase1a") : m0.instance < m.instance ]_vars

\* C20 (a proposer only acts for instances it drives): whenever a proposer
\* broadcasts a Learning for instance i, it has broadcast a Proposal for i in
\* its current round c_rnd of i.
C20_LearningOnlyForOwnProposal ==
    [][ \A p \in Proposers : \A m \in BroadcastNow(p, "Phase3") :
          \E m0 \in Broadcast(p, "Phase2a") :
              /\ m0.instance = m.instance
              /\ m0.c_rnd = proposer_states'[p][m.instance].c_rnd ]_vars

\* Proposer p has handled a Request for value v that started instance i.
Handled(p, i, v) ==
    /\ i \in DOMAIN proposer_states[p]
    /\ proposer_states[p][i].value = Some(v)

\* Learner l has emitted value v for instance i.
Emitted(l, i, v) == \E k \in 1..Len(l_stdout[l]) : l_stdout[l][k] = << i, v >>

\* C17 (minority loss is tolerated): with one proposer and 3 acceptors of
\* which acceptor 3 gets no datagram, a value whose Request the proposer has
\* handled is eventually emitted, unchanged, by every learner.
C17_MinorityLossTolerated ==
    \A v \in Values :
        Handled(1, 1, v) ~> (\A l \in Learners : Emitted(l, 1, v))

\* C17, its case: both learners have emitted the value and acceptor 3 has
\* never handled a datagram.
C17_Witness ==
    /\ \E v \in Values : \A l \in Learners : Emitted(l, 1, v)
    /\ acceptor_states[3] = EmptyMap
    /\ \A a \in {1, 2} : 1 \in DOMAIN acceptor_states[a]
                           /\ acceptor_states[a][1].v_rnd = 1

C18_LateLearnerCatchesUp ==
    /\ [] ( \A n \in 1..Len(l_stdout[2]) :
              /\ l_stdout[2][n][1] = n
              /\ n \in DOMAIN learned_values[1]
                    => l_stdout[2][n][2] = learned_values[1][n] )
    /\ <>[] ( \A i \in DOMAIN learned_values[1] :
                Emitted(2, i, learned_values[1][i]) )

\* C18, its case: the learner has emitted the two values of the Report and,
\* after them, the value of instance 3 that a later Learning carried.
C18_Witness ==
    /\ DOMAIN learned_values[1] = {1, 2}
    /\ Len(l_stdout[2]) = 3
    /\ l_stdout[2][3][1] = 3
    /\ injected >= 1

\* The Promises and Reports in the sockets of proposers and learners that
\* name another process as their receiver.
NotAddressed ==
    { dm \in BagToSet(net) : /\ dm[1][1] \in { "p", "l" }
                             /\ dm[2].type \in { "Phase1b", "Phase0c" }
                             /\ dm[2].receiver # dm[1] }

\* C19 (receiver filter): a step in which a proposer takes a Promise or a
\* Report, or a learner a Report, whose receiver is another process, changes
\* nothing in the state of the proposers and of the learners, emits nothing
\* and puts no datagram into a socket.
C19_ReceiverFilter ==
    [][ \A dm \in NotAddressed :
          CopiesIn(dm, net') < CopiesIn(dm, net)
              => /\ net' = received(dm)
                 /\ UNCHANGED << proposer_vars, learner_vars >> ]_vars

\* C19, its case: learner 1 has handled MaxInjected Reports addressed to learner 2
\* (proposer 1 has not started, so that it has sent no Report and has left
\* its socket alone) and has emitted nothing.
C19_Witness ==
    /\ injected = MaxInjected
    /\ p_status[1] = "new"
    /\ \A dm \in receivable(Uuid("p", 1)) : dm[2].type \in { "Phase0a", "Phase0b" }
    /\ l_status[1] = "running"
    /\ receivable(Uuid("l", 1)) = {}
    /\ l_stdout[1] = << >>

\* Every process of the run is in its receive loop and no datagram is left in
\* any socket: no step of a process is possible any more.
Quiescent ==
    /\ net = EmptyBag
    /\ \A p \in {1, 2} : p_status[p] = "running"
    /\ l_status[1] = "running"

\* C16 (progress with several proposers): with two proposers that receive the
\* same Request and a transport that loses no Preparation, Promise, Proposal,
\* Acceptance or Learning, once every datagram sent has been handled some
\* proposer has broadcast a Learning for the requested value and the learner
\* has emitted it.
C16_ProgressSeveralProposers ==
    Quiescent =>
        \A v \in requested :
            /\ \E p \in Proposers : \E m \in Broadcast(p, "Phase3") :
                  m.learned_value = v
            /\ \E i \in 1..MaxInstance : Emitted(1, i, v)

\* C21 (one value per round): the Proposals a proposer has broadcast for the
\* same instance and the same round carry the same value.
C21_OneValuePerRound ==
    \A p \in Proposers : \A m1, m2 \in Broadcast(p, "Phase2a") :
        (m1.instance = m2.instance /\ m1.c_rnd = m2.c_rnd) => m1.c_val = m2.c_val

\* The votes cast so far: the Acceptances the acceptors have sent.
Votes ==
    { m \in UNION { BagToSet(answered[a]) : a \in Acceptors } :
        m.type = "Phase2b" }

\* The acceptors that have voted for value v in round r of instance i.
Voters(i, r, v) ==
    { a \in Acceptors : \E m \in BagToSet(answered[a]) :
        /\ m.type = "Phase2b" /\ m.instance = i
        /\ m.v_rnd = r /\ m.v_val = Some(v) }

\* Value v is chosen in round r of instance i: a majority of the acceptors
\* have voted for it in that round.
ChosenIn(i, r, v) == Cardinality(Voters(i, r, v)) >= majority_of_acceptors

\* C22 (learned implies chosen): in every step in which a proposer broadcasts
\* Learning(i, v), there is a round of instance i in which a majority of
\* distinct acceptors have voted for v.
C22_LearnedImpliesChosen ==
    [][ \A p \in Proposers : \A m \in BroadcastNow(p, "Phase3") :
          \E vote \in Votes :
              ChosenIn(m.instance, vote.v_rnd, m.learned_value) ]_vars

\* C23 (chosen-value stability): if a majority of distinct acceptors have
\* voted for value v in round r of instance i, every Proposal broadcast for
\* instance i with a round greater than r carries v.
C23_ChosenValueStable ==
    \A vote \in Votes :
        ChosenIn(vote.instance, vote.v_rnd, unwrap(vote.v_val))
            => \A p \in Proposers : \A m \in Broadcast(p, "Phase2a") :
                   (m.instance = vote.instance /\ m.c_rnd > vote.v_rnd)
                       => m.c_val = vote.v_val

\* The AcceptorState of instance i at acceptor a.
StateOf(a, i) == entry_or_default(acceptor_states[a], i, AcceptorStateDefault)

\* The messages acceptor a sends in a step.
AnsweredNow(a) == answered'[a] (-) answered[a]

\* Acceptor a takes datagram dm out of its socket in a step.
Handles(a, dm) ==
    /\ dm \in receivable(Uuid("a", a))
    /\ CopiesIn(dm, net') < CopiesIn(dm, net)

\* The records of acceptor a for the instances other than i are unchanged.
OtherInstancesUnchanged(a, i) ==
    \A j \in DOMAIN acceptor_states[a] \ {i} :
        /\ j \in DOMAIN acceptor_states'[a]
        /\ acceptor_states'[a][j] = acceptor_states[a][j]

\* C24 (promise): an acceptor that handles Preparation(c_rnd, from, i) with
\* c_rnd > rnd(i) sets rnd(i) to c_rnd, keeps v_rnd(i) and v_val(i) and sends
\* one Promise to from with c_rnd and its vote; with c_rnd <= rnd(i) it keeps
\* its state and sends nothing.
C24_PromiseIffAbove ==
    [][ \A a \in Acceptors : \A dm \in BagToSet(net) :
          (Handles(a, dm) /\ dm[2].type = "Phase1a") =>
              LET i == dm[2].instance
                  c_rnd == dm[2].c_rnd
                  state == StateOf(a, i)
              IN  /\ OtherInstancesUnchanged(a, i)
                  /\ IF c_rnd > state.rnd
                       THEN /\ StateOf(a, i)' = [ rnd |-> c_rnd,
                                                  v_rnd |-> state.v_rnd,
                                                  v_val |-> state.v_val ]
                            /\ AnsweredNow(a) = SetToBag(
                                 { [ type |-> "Phase1b", rnd |-> c_rnd,
                                     v_rnd |-> state.v_rnd,
                                     v_val |-> state.v_val,
                                     sender |-> Uuid("a", a),
                                     receiver |-> dm[2].sender,
                                     instance |-> i ] })
                       ELSE /\ StateOf(a, i)' = state
                            /\ AnsweredNow(a) = EmptyBag ]_vars

\* C24, its case: the acceptor has promised a round above the round of its
\* vote, which the Promise carries, and finds in its socket a Preparation of
\* a round that is not above its rnd.
C24_Witness ==
    \E m \in BagToSet(answered[1]) : \E dm \in receivable(Uuid("a", 1)) :
        /\ m.type = "Phase1b" /\ m.v_rnd >= 1 /\ m.rnd > m.v_rnd
        /\ dm[2].type = "Phase1a" /\ dm[2].instance = m.instance
        /\ dm[2].c_rnd <= StateOf(1, m.instance).rnd

C26_PromiseIsPledge ==
    [][ \A a \in Acceptors : \A acc \in BagToSet(AnsweredNow(a)) :
          acc.type = "Phase2b" =>
              \A pr \in BagToSet(answered[a]) :
                  (pr.type = "Phase1b" /\ pr.instance = acc.instance)
                      => acc.v_rnd >= pr.rnd ]_vars

\* C26, its case: the acceptor has promised round 2 or above, has voted in a
\* round that is not below it, and finds a Proposal of a lower round in its
\* socket.
C26_Witness ==
    \E pr, acc \in BagToSet(answered[1]) : \E dm \in receivable(Uuid("a", 1)) :
        /\ pr.type = "Phase1b" /\ pr.rnd >= 2
        /\ acc.type = "Phase2b" /\ acc.instance = pr.instance
        /\ acc.v_rnd >= pr.rnd
        /\ dm[2].type = "Phase2a" /\ dm[2].instance = pr.instance
        /\ dm[2].c_rnd < pr.rnd /\ dm[2].c_rnd >= 1

\* The Promises the acceptors have sent to proposer p for instance i.
PromisesTo(p, i) ==
    { m \in UNION { BagToSet(answered[a]) : a \in Acceptors } :
        m.type = "Phase1b" /\ m.receiver = Uuid("p", p) /\ m.instance = i }

\* C27 (a Proposal needs a majority of Promises of the current round): in a
\* step in which a proposer broadcasts a Proposal for instance i, it has
\* recorded at least floor(N/2)+1 Promises for i, each of them sent to it by
\* an acceptor, every rnd it has recorded for i equals its c_rnd for i, and
\* the Proposal carries that c_rnd.
C27_ProposalNeedsMajority ==
    [][ \A p \in Proposers : \A m \in ProposalsSent(p) :
          LET i == m.instance
              state == proposer_states'[p][i]
          IN  /\ len(state.rnd_received) >= Cardinality(Acceptors) \div 2 + 1
              /\ len(state.rnd_received) <= Cardinality(PromisesTo(p, i))
              /\ \A rnd \in BagToSet(state.rnd_received) : rnd = state.c_rnd
              /\ m.c_rnd = state.c_rnd ]_vars

\* C27, its case: proposer 1 has broadcast a Proposal in round 1 of instance
\* 1, has prepared the instance again (round 2) and has recorded a majority
\* of Promises, of rounds 1 and 2; it has broadcast no Proposal in round 2.
C27_Witness ==
    /\ 1 \in DOMAIN proposer_states[1]
    /\ proposer_states[1][1].c_rnd = 2
    /\ BagToSet(proposer_states[1][1].rnd_received) = {1, 2}
    /\ \E m \in Broadcast(1, "Phase2a") : m.instance = 1 /\ m.c_rnd = 1
    /\ \A m \in Broadcast(1, "Phase2a") : m.c_rnd # 2

\* Proposer p has recorded for instance i a Promise whose rnd is not its c_rnd
\* for i.
MixedRounds(p, i) ==
    /\ i \in DOMAIN proposer_states[p]
    /\ \E rnd \in BagToSet(proposer_states[p][i].rnd_received) :
          rnd # proposer_states[p][i].c_rnd

\* C28 (no round retry): a proposer that has recorded for instance i a
\* Promise whose rnd differs from its c_rnd for i stays so in every step,
\* whatever it handles, and broadcasts no Proposal for i in a step that ends
\* so.
C28_NoRoundRetry ==
    [][ \A p \in Proposers : \A i \in DOMAIN proposer_states'[p] :
          /\ MixedRounds(p, i) => MixedRounds(p, i)'
          /\ MixedRounds(p, i)' =>
                \A m \in ProposalsSent(p) : m.instance # i ]_vars

\* C28, its case: proposer 1, in round 2 of instance 1, has recorded a
\* majority of Promises of round 2 after the Promises of round 1 and has
\* broadcast no Proposal in round 2.
C28_Witness ==
    /\ 1 \in DOMAIN proposer_states[1]
    /\ proposer_states[1][1].c_rnd = 2
    /\ CopiesIn(1, proposer_states[1][1].rnd_received) >= 1
    /\ CopiesIn(2, proposer_states[1][1].rnd_received) >= majority_of_acceptors
    /\ \A m \in Broadcast(1, "Phase2a") : m.c_rnd # 2

\* C29 (CatchUp): a proposer that handles a CatchUp of its own sends nothing;
\* a proposer that handles the CatchUp of another process sends one Report
\* with its num_of_instances and learned_values, addressed to the sender of
\* the CatchUp, to the learners when the sender is a learner and to the
\* proposers otherwise.  In both cases the state of the proposer is unchanged.
C29_CatchUpReply ==
    [][ \A p \in Proposers : \A dm \in receivable(Uuid("p", p)) :
          (dm[2].type = "Phase0b" /\ CopiesIn(dm, net') < CopiesIn(dm, net)) =>
              /\ UNCHANGED proposer_vars
              /\ IF dm[2].sender = Uuid("p", p)
                   THEN net' = received(dm)
                   ELSE net' = send(received(dm),
                                    [ type |-> "Phase0c",
                                      num_of_instances |-> num_of_instances[p],
                                      learned_values |-> learned_values[p],
                                      sender |-> Uuid("p", p),
                                      receiver |-> dm[2].sender ],
                                    IF dm[2].sender_type = "l"
                                      THEN LearnerGroup
                                      ELSE ProposerGroup) ]_vars

\* C29, its case: every CatchUp has been handled (proposer 2 has handled its
\* own); the Report of proposer 1 to proposer 2 is in a socket of the
\* proposers and its Report to learner 2 in the socket of learner 2, both
\* with the values proposer 1 has learned.
C29_Witness ==
    /\ p_status[2] = "running" /\ l_status[2] = "running"
    /\ \A dm \in BagToSet(net) : dm[2].type # "Phase0b"
    /\ \E dm \in receivable(Uuid("p", 2)) :
          /\ dm[2].type = "Phase0c" /\ dm[2].sender = Uuid("p", 1)
          /\ dm[2].receiver = Uuid("p", 2)
          /\ dm[2].learned_values = learned_values[1]
    /\ \E dm \in receivable(Uuid("l", 2)) :
          /\ dm[2].type = "Phase0c" /\ dm[2].sender = Uuid("p", 1)
          /\ dm[2].receiver = Uuid("l", 2)
          /\ dm[2].learned_values = learned_values[1]
    /\ learned_values[1] # EmptyMap

\* Proposer p takes a Report addressed to it out of its socket in a step.
HandlesReport(p, dm) ==
    /\ dm \in receivable(Uuid("p", p))
    /\ dm[2].type = "Phase0c" /\ dm[2].receiver = Uuid("p", p)
    /\ CopiesIn(dm, net') < CopiesIn(dm, net)

\* handle_report does what C30 says: num_of_instances and learned_values
\* become those of the Report, proposer_states stays.
ReportReplaces ==
    \A p \in Proposers : \A dm \in BagToSet(net) :
        HandlesReport(p, dm) =>
            /\ num_of_instances'[p] = dm[2].num_of_instances
            /\ learned_values'[p] = dm[2].learned_values
            /\ UNCHANGED proposer_states

\* The replacement keeps the value of every instance the proposer had a
\* value for and that the Report has a value for.
ReportKeepsValues ==
    \A p \in Proposers : \A dm \in BagToSet(net) :
        HandlesReport(p, dm) =>
            \A i \in DOMAIN learned_values[p] \cap DOMAIN learned_values'[p] :
                learned_values'[p][i] = learned_values[p][i]

\* A proposer prepares no instance that it has prepared before.
NoInstancePreparedAgain ==
    \A p \in Proposers : \A m \in BroadcastNow(p, "Phase1a") :
        \A m0 \in Broadcast(p, "Phase1a") : m0.instance # m.instance

\* C30 (Report to a proposer): a proposer that handles a Report addressed to
\* it takes num_of_instances and learned_values from the Report and leaves
\* proposer_states alone; no value it held for an instance changes, and it
\* never prepares again an instance it has prepared.
C30_ReportReplacementSafe ==
    [][ ReportReplaces /\ ReportKeepsValues /\ NoInstancePreparedAgain ]_vars

\* The Reports proposer p sends in a step.
ReportsSentNow(p) ==
    { dm \in BagToSet(net') :
        /\ dm[2].type = "Phase0c"
        /\ dm[2].sender = Uuid("p", p)
        /\ CopiesIn(dm, net') > CopiesIn(dm, net) }

\* C31: a proposer's learned values persist: every Report a proposer sends
\* contains every entry instance -> value its learned_values has held before,
\* whatever Requests, Reports and Acceptances it has handled in between.
C31_LearnedValuesPersist ==
    [][ \A p \in Proposers : \A dm \in ReportsSentNow(p) :
          held[p] \subseteq Entries(dm[2].learned_values) ]_vars

\* Learner l handles, in this step, the Report dm, which is addressed to it.
HandlesOwnReport(l, dm) ==
    /\ l_status[l] = "running"
    /\ dm[1] = Uuid("l", l)
    /\ dm[2].type = "Phase0c"
    /\ dm[2].receiver = Uuid("l", l)
    /\ CopiesIn(dm, net') < CopiesIn(dm, net)

\* The lines learner l prints in a step.
EmittedNow(l) ==
    { l_stdout'[l][n] : n \in (Len(l_stdout[l]) + 1)..Len(l_stdout'[l]) }

\* Every instance learner l held keeps its value in the step.
KeepsLearnedValues(l) ==
    \A i \in DOMAIN l_learned_values[l] :
        /\ i \in DOMAIN l_learned_values'[l]
        /\ l_learned_values'[l][i] = l_learned_values[l][i]

\* The step only adds lines, none for an instance already printed.
EmitsNothingAgain(l) ==
    /\ Len(l_stdout'[l]) >= Len(l_stdout[l])
    /\ SubSeq(l_stdout'[l], 1, Len(l_stdout[l])) = l_stdout[l]
    /\ \A line \in EmittedNow(l) :
          \A n \in 1..Len(l_stdout[l]) : l_stdout[l][n][1] # line[1]

\* C32: a learner merges a Report non-destructively: when a learner handles a
\* Report addressed to it, every instance it held keeps its value, the next
\* instance to deliver does not decrease, and no instance already emitted is
\* emitted again.
C32_ReportMergeKeeps ==
    [][ \A l \in Learners : \A dm \in BagToSet(net) :
          HandlesOwnReport(l, dm) =>
            /\ KeepsLearnedValues(l)
            /\ l_num_of_instances'[l] >= l_num_of_instances[l]
            /\ EmitsNothingAgain(l) ]_vars

\* Learner l handles, in this step, the Learning dm of a value it already
\* holds for that instance.
HandlesDuplicateLearning(l, dm) ==
    /\ l_status[l] = "running"
    /\ dm[1] = Uuid("l", l)
    /\ dm[2].type = "Phase3"
    /\ CopiesIn(dm, net') < CopiesIn(dm, net)
    /\ dm[2].instance \in DOMAIN l_learned_values[l]
    /\ l_learned_values[l][dm[2].instance] = dm[2].learned_value

\* No two lines of the output of learner l are for the same instance.
EmittedOnce(l) ==
    \A m, n \in 1..Len(l_stdout[l]) :
        l_stdout[l][m][1] = l_stdout[l][n][1] => m = n

\* C33: a duplicate Learning is idempotent at the learner: handling
\* Learning(i, v) when learned_values[i] = v leaves learned_values and the
\* next instance to deliver unchanged and emits nothing, and the value of an
\* instance is emitted once however many copies of its Learning arrive.
C33_DuplicateLearningIdempotent ==
    [][ \A l \in Learners :
          /\ \A dm \in BagToSet(net) :
                HandlesDuplicateLearning(l, dm) =>
                  /\ l_learned_values'[l] = l_learned_values[l]
                  /\ l_num_of_instances'[l] = l_num_of_instances[l]
                  /\ l_stdout'[l] = l_stdout[l]
                  /\ l_status'[l] = l_status[l]
          /\ EmittedOnce(l)' ]_vars

\* Learner 1 has handled every Learning that arrived, more Learnings than it
\* holds instances, without aborting: one of them was a copy; the first
\* instance has been emitted.
C33_Witness ==
    /\ injected = MaxInjected
    /\ net = EmptyBag
    /\ l_status[1] = "running"
    /\ Cardinality(DOMAIN l_learned_values[1]) < MaxInjected
    /\ Len(l_stdout[1]) >= 1

\* The Acceptances acceptor a has sent.
AcceptancesOf(a) == { m \in BagToSet(answered[a]) : m.type = "Phase2b" }

\* C34: the "Logic error" aborts are unreachable: every Proposal a proposer
\* has broadcast carries a set c_val, every Acceptance an acceptor has sent
\* carries a set v_val, and neither handle_proposal nor handle_acceptance has
\* aborted on an unset value.
C34_NoLogicError ==
    /\ \A p \in Proposers : \A m \in Broadcast(p, "Phase2a") : m.c_val # None
    /\ \A a \in Acceptors : \A m \in AcceptancesOf(a) : m.v_val # None
    /\ \A p \in Proposers : p_status[p] # "panic_logic"
    /\ \A a \in Acceptors : a_status[a] # "panic_logic"

\* A proposer has broadcast a Proposal, every acceptor has handled it and
\* sent an Acceptance, and a proposer has handled a majority of Acceptances.
C34_Witness ==
    /\ \E p \in Proposers : Broadcast(p, "Phase2a") # {}
    /\ \A a \in Acceptors : AcceptancesOf(a) # {}
    /\ \E p \in Proposers : DOMAIN learned_values[p] # {}

\* C35: round 0 means "never set": every Preparation a proposer broadcasts,
\* whatever its id, has c_rnd >= 1, and an acceptor that handles it with a
\* fresh record for the instance answers with a Promise.
C35_RoundAtLeastOne ==
    [][ /\ \A p \in Proposers : \A m \in BroadcastNow(p, "Phase1a") :
              m.c_rnd >= 1
        /\ \A a \in Acceptors : \A dm \in BagToSet(net) :
              ( /\ Handles(a, dm)
                /\ dm[2].type = "Phase1a"
                /\ dm[2].sender \in { Uuid("p", p) : p \in Proposers }
                /\ StateOf(a, dm[2].instance) = AcceptorStateDefault )
              => \E m \in BagToSet(AnsweredNow(a)) : m.type = "Phase1b" ]_vars

\* Datagram dm is at the socket of a process whose run loop has no arm for
\* its variant.
Unexpected(dm) ==
    \/ dm[1][1] = "p" /\ dm[2].type \in { "Phase1a", "Phase1c", "Phase2a", "Phase3" }
    \/ dm[1][1] = "a" /\ dm[2].type \notin { "Phase1a", "Phase2a" }
    \/ dm[1][1] = "l" /\ dm[2].type \notin { "Phase0c", "Phase3" }

\* C36: unexpected message variants are discarded: a step in which a process
\* takes from its socket a variant its run loop has no arm for leaves the
\* state of every process unchanged, sends nothing and emits nothing.
C36_UnexpectedDiscarded ==
    [][ \A dm \in BagToSet(net) :
          (Unexpected(dm) /\ CopiesIn(dm, net') < CopiesIn(dm, net)) =>
            /\ net' = net (-) SetToBag({dm})
            /\ UNCHANGED << proposer_vars, acceptor_vars, learner_vars >> ]_vars

\* Every variant that arrived has been taken from the sockets of proposer 1,
\* acceptor 1 and learner 1, after proposer 1 has prepared an instance and
\* acceptor 1 has answered its Preparation.
C36_Witness ==
    /\ injected = MaxInjected
    /\ \A dm \in BagToSet(net) : ~Unexpected(dm)
    /\ DOMAIN proposer_states[1] # {}
    /\ DOMAIN acceptor_states[1] # {}
    /\ l_status[1] = "running"

====
